---- MODULE Spec2Model ----
(***************************************************************************)
(* The wormhole facades of src/wormhole/wormhole.py as a state machine:    *)
(* _DeferredWormhole (observer lists of Deferreds), _DelegatedWormhole     *)
(* (synchronous delegate calls), and the events the Boss pushes into them. *)
(***************************************************************************)
EXTENDS Integers, Sequences, FiniteSets, TLC

\* ------------------------------------------------------------------ bounds
MaxCalls == 2
MaxEvents == 2
MaxBlockingCalls == 3
MaxInbound == 1

\* -------------------------------------------------------- python values
\* A Python value is a record: its type, a text payload, and a number (the
\* value of an int, the length of derived bytes, or for a Deferred its
\* index in the instance's heap).
PyVal(type, payload) == [t |-> type, v |-> payload, n |-> 0]
None == PyVal("None", "")
Str(s) == PyVal("str", s)
Dict(s) == PyVal("dict", s)
PyInt(n) == [t |-> "int", v |-> "", n |-> n]
Exc(name) == PyVal("Exception", name)
Failure(e) == PyVal("Failure", e.v)
WormholeClosed(r) == PyVal("WormholeClosed", r.v)
NoKeyError == PyVal("NoKeyError", "")
TypeError == PyVal("TypeError", "")
AlreadyCalledError == PyVal("AlreadyCalledError", "")
UsageError == PyVal("UsageError", "")
DeferredRef(n) == [t |-> "Deferred", v |-> "", n |-> n]

\* Python truthiness: None, the empty string, the empty byte string and the
\* empty dict are false; exceptions, Failures and non-empty values are true.
Truthy(x) == x.t # "None" /\ ~(x.t \in {"str", "dict"} /\ x.v = "")
isinstance_Exception(x) == x.t \in {"Exception", "WormholeClosed", "NoKeyError",
                                    "TypeError", "AlreadyCalledError", "UsageError"}
isinstance_str(x) == x.t = "str"

\* What a call did: returned a value, or raised an exception.
Return(x) == [how |-> "return", val |-> x]
Raise(x) == [how |-> "raise", val |-> x]

\* ------------------------------------------------------------ input sets
Insts == {"A", "B"}
\* What the Boss passes to got_code, got_key, got_verifier, got_version,
\* received and closed (a result is the mood string or an exception), and
\* what the application passes to the calls.
Codes == {Str(""), Str("4-purple-sausages")}
Keys == {Str(""), Str("k")}
Verifiers == {Str("verifier")}
Versions == {Dict("")}
Messages == {Str("data1"), Str("data2")}
Results == {Str(""), Str("happy"), Exc("err")}
Purposes == {Str("purpose"), PyInt(7)}
Lengths == {16}
CodeLengths == {2}
SetCodes == {Str("4-purple-sausages")}
Outbound == {Str("data1")}
Allocated == {Str("7-crossover-clockwork")}

BossEvents == {"got_code", "got_key", "got_verifier", "got_version", "received", "closed"}

VARIABLES
    flavor,              \* create(): "deferred" (no delegate) or "delegated"
    code, code_observers,
    key, key_observers,
    verifier, verifier_observers,
    versions, version_observers,
    received_data, received_observers,
    observer_result,
    closed_result, closed_observers,
    deferreds,           \* the Deferreds the instance has created, in creation order
    boss,                \* the calls made on self._boss, in order
    delegate,            \* the calls made on self._delegate, in order
    ret,                 \* what the last call on the instance returned or raised
    calls, events,       \* how many caller calls / Boss events have happened
    got,                 \* history: per event, the values the Boss has passed, in order
    \* the blocking flavor (wormhole.blocking.transcribe.Wormhole) and its Boss
    thread,              \* the blocking call in progress on the instance
    outcome,             \* what the last blocking call returned or raised
    code_step,           \* a code-establishing call has completed
    data_attempted,      \* get_data has been invoked
    used,                \* history: the blocking calls made on the instance, in order
    boss_done,           \* how many of the calls in `boss` the Boss has handled
    boss_code,           \* the code the Boss holds
    boss_mood,           \* how far the Boss has come: "new", "coded", "keyed",
                         \* "verified", "happy" (connected) or "closed"
    mailbox              \* what the instance sent and the relay still holds for the peer

fields == <<code, code_observers, key, key_observers, verifier, verifier_observers,
            versions, version_observers, received_data, received_observers,
            observer_result, closed_result, closed_observers>>
facade == <<fields, deferreds, boss, delegate, ret>>
counters == <<flavor, calls, events, got>>
blocking == <<thread, outcome, code_step, data_attempted, used>>
engine == <<boss_done, boss_code, boss_mood, mailbox>>
vars == <<facade, counters, blocking, engine>>

\* ---------------------------------------------------- twisted Deferreds
\* A Deferred: pending, or called with a result. A result that is a Failure
\* makes it failed. `kind` is the method that made it, `made` how it was made
\* (defer.Deferred(), defer.succeed() or defer.fail()), `at` its position in
\* the order of firing, `again` the calls made on it after it was called.
NewDeferred(kind, made) ==
    [kind |-> kind, made |-> made, state |-> "pending", val |-> None, at |-> 0, again |-> 0]

NFired(ds) == Cardinality({n \in 1..Len(ds) : ds[n].state # "pending"})

Called(ds, n, st, x) ==
    [ds EXCEPT ![n] = [@ EXCEPT !.state = st, !.val = x, !.at = NFired(ds) + 1]]

\* d.callback(x) / d.errback(x) on the Deferred n of heap ds. `raised` is set
\* when the Deferred had been called before (AlreadyCalledError).
callback(st, n, x) ==
    IF st.raised THEN st
    ELSE IF st.ds[n].state # "pending"
         THEN [ds |-> [st.ds EXCEPT ![n].again = @ + 1], raised |-> TRUE]
         ELSE [ds |-> Called(st.ds, n, IF x.t = "Failure" THEN "fail" ELSE "ok", x),
               raised |-> FALSE]

errback(st, n, x) ==
    IF st.raised THEN st
    ELSE IF st.ds[n].state # "pending"
         THEN [ds |-> [st.ds EXCEPT ![n].again = @ + 1], raised |-> TRUE]
         ELSE [ds |-> Called(st.ds, n, "fail", x), raised |-> FALSE]

\* for d in observers: d.callback(x)      (stops at the first exception)
RECURSIVE callback_all(_, _, _)
callback_all(st, observers, x) ==
    IF observers = << >> THEN st
    ELSE callback_all(callback(st, Head(observers), x), Tail(observers), x)

\* for d in observers: d.errback(x)
RECURSIVE errback_all(_, _, _)
errback_all(st, observers, x) ==
    IF observers = << >> THEN st
    ELSE errback_all(errback(st, Head(observers), x), Tail(observers), x)

Heap(i) == [ds |-> deferreds[i], raised |-> FALSE]

\* defer.succeed(x), defer.fail(x), defer.Deferred(): the heap with the new
\* Deferred appended.
succeed(ds, kind, x) ==
    callback([ds |-> Append(ds, NewDeferred(kind, "succeed")), raised |-> FALSE],
             Len(ds) + 1, x).ds
fail(ds, kind, x) ==
    errback([ds |-> Append(ds, NewDeferred(kind, "fail")), raised |-> FALSE],
            Len(ds) + 1, x).ds
Deferred(ds, kind) == Append(ds, NewDeferred(kind, "Deferred"))

\* No blocking call is in progress.
Idle == [op |-> "", pc |-> "idle", d |-> 0]

\* ------------------------------------------------------------------ Init
Init ==
    /\ flavor \in [Insts -> {"deferred", "delegated"}]
    /\ flavor["B"] = "deferred"
    /\ code = [i \in Insts |-> None]
    /\ code_observers = [i \in Insts |-> << >>]
    /\ key = [i \in Insts |-> None]
    /\ key_observers = [i \in Insts |-> << >>]
    /\ verifier = [i \in Insts |-> None]
    /\ verifier_observers = [i \in Insts |-> << >>]
    /\ versions = [i \in Insts |-> None]
    /\ version_observers = [i \in Insts |-> << >>]
    /\ received_data = [i \in Insts |-> << >>]
    /\ received_observers = [i \in Insts |-> << >>]
    /\ observer_result = [i \in Insts |-> None]
    /\ closed_result = [i \in Insts |-> None]
    /\ closed_observers = [i \in Insts |-> << >>]
    /\ deferreds = [i \in Insts |-> << >>]
    /\ boss = [i \in Insts |-> << >>]
    /\ delegate = [i \in Insts |-> << >>]
    /\ ret = [i \in Insts |-> Return(None)]
    /\ calls = 0
    /\ events = 0
    /\ got = [e \in BossEvents |-> << >>]
    /\ thread = [i \in Insts |-> Idle]
    /\ outcome = [i \in Insts |-> [op |-> "", how |-> "return", val |-> None]]
    /\ code_step = [i \in Insts |-> FALSE]
    /\ data_attempted = [i \in Insts |-> FALSE]
    /\ used = [i \in Insts |-> << >>]
    /\ boss_done = [i \in Insts |-> 0]
    /\ boss_code = [i \in Insts |-> None]
    /\ boss_mood = [i \in Insts |-> "new"]
    /\ mailbox = [i \in Insts |-> << >>]

\* ------------------------------------------------- _DeferredWormhole
\* from above

\* when_code() testing `if self._code:` where the code tests `is not None`.
when_code_truthy(i) ==
    /\ ret' = [ret EXCEPT ![i] = Return(DeferredRef(Len(deferreds[i]) + 1))]
    /\ IF observer_result[i] # None
       THEN /\ deferreds' = [deferreds EXCEPT ![i] = fail(@, "code", observer_result[i])]
            /\ UNCHANGED code_observers
       ELSE IF Truthy(code[i])
       THEN /\ deferreds' = [deferreds EXCEPT ![i] = succeed(@, "code", code[i])]
            /\ UNCHANGED code_observers
       ELSE /\ deferreds' = [deferreds EXCEPT ![i] = Deferred(@, "code")]
            /\ code_observers' = [code_observers EXCEPT ![i] = Append(@, Len(deferreds[i]) + 1)]
    /\ UNCHANGED <<code, key, key_observers, verifier, verifier_observers, versions,
                   version_observers, received_data, received_observers, observer_result,
                   closed_result, closed_observers, boss, delegate>>

when_code(i) ==
    /\ ret' = [ret EXCEPT ![i] = Return(DeferredRef(Len(deferreds[i]) + 1))]
    /\ IF observer_result[i] # None
       THEN /\ deferreds' = [deferreds EXCEPT ![i] = fail(@, "code", observer_result[i])]
            /\ UNCHANGED code_observers
       ELSE IF code[i] # None
       THEN /\ deferreds' = [deferreds EXCEPT ![i] = succeed(@, "code", code[i])]
            /\ UNCHANGED code_observers
       ELSE /\ deferreds' = [deferreds EXCEPT ![i] = Deferred(@, "code")]
            /\ code_observers' = [code_observers EXCEPT ![i] = Append(@, Len(deferreds[i]) + 1)]
    /\ UNCHANGED <<code, key, key_observers, verifier, verifier_observers, versions, version_observers, received_data, received_observers, observer_result, closed_result, closed_observers, boss, delegate>>

\* when_key() looking at the cached key before the close outcome.
when_key_cached_first(i) ==
    /\ ret' = [ret EXCEPT ![i] = Return(DeferredRef(Len(deferreds[i]) + 1))]
    /\ IF key[i] # None
       THEN /\ deferreds' = [deferreds EXCEPT ![i] = succeed(@, "key", key[i])]
            /\ UNCHANGED key_observers
       ELSE IF observer_result[i] # None
       THEN /\ deferreds' = [deferreds EXCEPT ![i] = fail(@, "key", observer_result[i])]
            /\ UNCHANGED key_observers
       ELSE /\ deferreds' = [deferreds EXCEPT ![i] = Deferred(@, "key")]
            /\ key_observers' = [key_observers EXCEPT ![i] = Append(@, Len(deferreds[i]) + 1)]
    /\ UNCHANGED <<code, code_observers, key, verifier, verifier_observers, versions,
                   version_observers, received_data, received_observers, observer_result,
                   closed_result, closed_observers, boss, delegate>>

when_key(i) ==
    /\ ret' = [ret EXCEPT ![i] = Return(DeferredRef(Len(deferreds[i]) + 1))]
    /\ IF observer_result[i] # None
       THEN /\ deferreds' = [deferreds EXCEPT ![i] = fail(@, "key", observer_result[i])]
            /\ UNCHANGED key_observers
       ELSE IF key[i] # None
       THEN /\ deferreds' = [deferreds EXCEPT ![i] = succeed(@, "key", key[i])]
            /\ UNCHANGED key_observers
       ELSE /\ deferreds' = [deferreds EXCEPT ![i] = Deferred(@, "key")]
            /\ key_observers' = [key_observers EXCEPT ![i] = Append(@, Len(deferreds[i]) + 1)]
    /\ UNCHANGED <<code, code_observers, key, verifier, verifier_observers, versions, version_observers, received_data, received_observers, observer_result, closed_result, closed_observers, boss, delegate>>

when_verified(i) ==
    /\ ret' = [ret EXCEPT ![i] = Return(DeferredRef(Len(deferreds[i]) + 1))]
    /\ IF observer_result[i] # None
       THEN /\ deferreds' = [deferreds EXCEPT ![i] = fail(@, "verifier", observer_result[i])]
            /\ UNCHANGED verifier_observers
       ELSE IF verifier[i] # None
       THEN /\ deferreds' = [deferreds EXCEPT ![i] = succeed(@, "verifier", verifier[i])]
            /\ UNCHANGED verifier_observers
       ELSE /\ deferreds' = [deferreds EXCEPT ![i] = Deferred(@, "verifier")]
            /\ verifier_observers' = [verifier_observers EXCEPT ![i] = Append(@, Len(deferreds[i]) + 1)]
    /\ UNCHANGED <<code, code_observers, key, key_observers, verifier, versions, version_observers, received_data, received_observers, observer_result, closed_result, closed_observers, boss, delegate>>

when_version(i) ==
    /\ ret' = [ret EXCEPT ![i] = Return(DeferredRef(Len(deferreds[i]) + 1))]
    /\ IF observer_result[i] # None
       THEN /\ deferreds' = [deferreds EXCEPT ![i] = fail(@, "version", observer_result[i])]
            /\ UNCHANGED version_observers
       ELSE IF versions[i] # None
       THEN /\ deferreds' = [deferreds EXCEPT ![i] = succeed(@, "version", versions[i])]
            /\ UNCHANGED version_observers
       ELSE /\ deferreds' = [deferreds EXCEPT ![i] = Deferred(@, "version")]
            /\ version_observers' = [version_observers EXCEPT ![i] = Append(@, Len(deferreds[i]) + 1)]
    /\ UNCHANGED <<code, code_observers, key, key_observers, verifier, verifier_observers, versions, received_data, received_observers, observer_result, closed_result, closed_observers, boss, delegate>>

\* when_received() taking the newest buffered message (pop() for pop(0)).
when_received_newest(i) ==
    /\ ret' = [ret EXCEPT ![i] = Return(DeferredRef(Len(deferreds[i]) + 1))]
    /\ IF observer_result[i] # None
       THEN /\ deferreds' = [deferreds EXCEPT ![i] = fail(@, "received", observer_result[i])]
            /\ UNCHANGED <<received_data, received_observers>>
       ELSE IF received_data[i] # << >>
       THEN /\ deferreds' = [deferreds EXCEPT ![i] =
                               succeed(@, "received", received_data[i][Len(received_data[i])])]
            /\ received_data' = [received_data EXCEPT ![i] = SubSeq(@, 1, Len(@) - 1)]
            /\ UNCHANGED received_observers
       ELSE /\ deferreds' = [deferreds EXCEPT ![i] = Deferred(@, "received")]
            /\ received_observers' = [received_observers EXCEPT ![i] = Append(@, Len(deferreds[i]) + 1)]
            /\ UNCHANGED received_data
    /\ UNCHANGED <<code, code_observers, key, key_observers, verifier, verifier_observers,
                   versions, version_observers, observer_result, closed_result,
                   closed_observers, boss, delegate>>

when_received(i) ==
    /\ ret' = [ret EXCEPT ![i] = Return(DeferredRef(Len(deferreds[i]) + 1))]
    /\ IF observer_result[i] # None
       THEN /\ deferreds' = [deferreds EXCEPT ![i] = fail(@, "received", observer_result[i])]
            /\ UNCHANGED <<received_data, received_observers>>
       ELSE IF received_data[i] # << >>
       THEN /\ deferreds' = [deferreds EXCEPT ![i] = succeed(@, "received", Head(received_data[i]))]
            /\ received_data' = [received_data EXCEPT ![i] = Tail(@)]
            /\ UNCHANGED received_observers
       ELSE /\ deferreds' = [deferreds EXCEPT ![i] = Deferred(@, "received")]
            /\ received_observers' = [received_observers EXCEPT ![i] = Append(@, Len(deferreds[i]) + 1)]
            /\ UNCHANGED received_data
    /\ UNCHANGED <<code, code_observers, key, key_observers, verifier, verifier_observers, versions, version_observers, observer_result, closed_result, closed_observers, boss, delegate>>

allocate_code(i, code_length) ==
    /\ boss' = [boss EXCEPT ![i] = Append(@, [op |-> "allocate_code", arg |-> PyInt(code_length)])]
    /\ ret' = [ret EXCEPT ![i] = Return(None)]
    /\ UNCHANGED <<fields, deferreds, delegate>>

input_code(i) ==
    /\ boss' = [boss EXCEPT ![i] = Append(@, [op |-> "input_code", arg |-> None])]
    /\ ret' = [ret EXCEPT ![i] = Return(None)]
    /\ UNCHANGED <<fields, deferreds, delegate>>

set_code(i, c) ==
    /\ boss' = [boss EXCEPT ![i] = Append(@, [op |-> "set_code", arg |-> c])]
    /\ ret' = [ret EXCEPT ![i] = Return(None)]
    /\ UNCHANGED <<fields, deferreds, delegate>>

\* send() that passes the message to the Boss twice.
send_twice(i, plaintext) ==
    /\ boss' = [boss EXCEPT ![i] = Append(Append(@, [op |-> "send", arg |-> plaintext]),
                                          [op |-> "send", arg |-> plaintext])]
    /\ ret' = [ret EXCEPT ![i] = Return(None)]
    /\ UNCHANGED <<fields, deferreds, delegate>>

send(i, plaintext) ==
    /\ boss' = [boss EXCEPT ![i] = Append(@, [op |-> "send", arg |-> plaintext])]
    /\ ret' = [ret EXCEPT ![i] = Return(None)]
    /\ UNCHANGED <<fields, deferreds, delegate>>

\* _key.derive_key(key, purpose, length): the external derivation, a
\* deterministic function of its three arguments.
key_derive_key(k, purpose, length) ==
    [t |-> "bytes", v |-> k.v, n |-> length, purpose |-> purpose]

to_bytes(purpose) == purpose.v

derive_key(i, purpose, length) ==
    /\ ret' = [ret EXCEPT ![i] =
                 IF ~isinstance_str(purpose) THEN Raise(TypeError)
                 ELSE IF ~Truthy(key[i]) THEN Raise(NoKeyError)
                 ELSE Return(key_derive_key(key[i], to_bytes(purpose), length))]
    /\ UNCHANGED <<fields, deferreds, boss, delegate>>

close(i) ==
    IF Truthy(closed_result[i])
    THEN /\ deferreds' = [deferreds EXCEPT ![i] = succeed(@, "close", closed_result[i])]
         /\ ret' = [ret EXCEPT ![i] = Return(DeferredRef(Len(deferreds[i]) + 1))]
         /\ UNCHANGED <<fields, boss, delegate>>
    ELSE /\ deferreds' = [deferreds EXCEPT ![i] = Deferred(@, "close")]
         /\ closed_observers' = [closed_observers EXCEPT ![i] = Append(@, Len(deferreds[i]) + 1)]
         /\ boss' = [boss EXCEPT ![i] = Append(@, [op |-> "close", arg |-> None])]
         /\ ret' = [ret EXCEPT ![i] = Return(DeferredRef(Len(deferreds[i]) + 1))]
         /\ UNCHANGED <<code, code_observers, key, key_observers, verifier, verifier_observers,
                        versions, version_observers, received_data, received_observers,
                        observer_result, closed_result, delegate>>

\* from below
\* An exception raised by d.callback() leaves the handler at that point: the
\* observers fired so far stay fired and the list is not cleared.
Done(st) == IF st.raised THEN Raise(AlreadyCalledError) ELSE Return(None)

\* got_code() that also throws away the buffered messages.
got_code_flushing(i, c) ==
    LET st == callback_all(Heap(i), code_observers[i], c) IN
    /\ code' = [code EXCEPT ![i] = c]
    /\ deferreds' = [deferreds EXCEPT ![i] = st.ds]
    /\ code_observers' = [code_observers EXCEPT ![i] = IF st.raised THEN @ ELSE << >>]
    /\ received_data' = [received_data EXCEPT ![i] = << >>]
    /\ ret' = [ret EXCEPT ![i] = Done(st)]
    /\ UNCHANGED <<key, key_observers, verifier, verifier_observers, versions, version_observers, received_observers, observer_result, closed_result, closed_observers, boss, delegate>>

got_code(i, c) ==
    LET st == callback_all(Heap(i), code_observers[i], c) IN
    /\ code' = [code EXCEPT ![i] = c]
    /\ deferreds' = [deferreds EXCEPT ![i] = st.ds]
    /\ code_observers' = [code_observers EXCEPT ![i] = IF st.raised THEN @ ELSE << >>]
    /\ ret' = [ret EXCEPT ![i] = Done(st)]
    /\ UNCHANGED <<key, key_observers, verifier, verifier_observers, versions, version_observers, received_data, received_observers, observer_result, closed_result, closed_observers, boss, delegate>>

got_key(i, k) ==
    LET st == callback_all(Heap(i), key_observers[i], k) IN
    /\ key' = [key EXCEPT ![i] = k]
    /\ deferreds' = [deferreds EXCEPT ![i] = st.ds]
    /\ key_observers' = [key_observers EXCEPT ![i] = IF st.raised THEN @ ELSE << >>]
    /\ ret' = [ret EXCEPT ![i] = Done(st)]
    /\ UNCHANGED <<code, code_observers, verifier, verifier_observers, versions, version_observers, received_data, received_observers, observer_result, closed_result, closed_observers, boss, delegate>>

got_verifier(i, v) ==
    LET st == callback_all(Heap(i), verifier_observers[i], v) IN
    /\ verifier' = [verifier EXCEPT ![i] = v]
    /\ deferreds' = [deferreds EXCEPT ![i] = st.ds]
    /\ verifier_observers' = [verifier_observers EXCEPT ![i] = IF st.raised THEN @ ELSE << >>]
    /\ ret' = [ret EXCEPT ![i] = Done(st)]
    /\ UNCHANGED <<code, code_observers, key, key_observers, versions, version_observers, received_data, received_observers, observer_result, closed_result, closed_observers, boss, delegate>>

got_version(i, v) ==
    LET st == callback_all(Heap(i), version_observers[i], v) IN
    /\ versions' = [versions EXCEPT ![i] = v]
    /\ deferreds' = [deferreds EXCEPT ![i] = st.ds]
    /\ version_observers' = [version_observers EXCEPT ![i] = IF st.raised THEN @ ELSE << >>]
    /\ ret' = [ret EXCEPT ![i] = Done(st)]
    /\ UNCHANGED <<code, code_observers, key, key_observers, verifier, verifier_observers, received_data, received_observers, observer_result, closed_result, closed_observers, boss, delegate>>

\* received() that has no queue: a message nobody waits for is lost.
received_unqueued(i, plaintext) ==
    IF received_observers[i] # << >>
    THEN LET st == callback(Heap(i), Head(received_observers[i]), plaintext) IN
         /\ received_observers' = [received_observers EXCEPT ![i] = Tail(@)]
         /\ deferreds' = [deferreds EXCEPT ![i] = st.ds]
         /\ ret' = [ret EXCEPT ![i] = Done(st)]
         /\ UNCHANGED <<code, code_observers, key, key_observers, verifier, verifier_observers, versions, version_observers, received_data, observer_result, closed_result, closed_observers, boss, delegate>>
    ELSE /\ ret' = [ret EXCEPT ![i] = Return(None)]
         /\ UNCHANGED <<fields, deferreds, boss, delegate>>

\* received() that queues every message, whether or not a waiter is there.
received_buffering(i, plaintext) ==
    /\ received_data' = [received_data EXCEPT ![i] = Append(@, plaintext)]
    /\ ret' = [ret EXCEPT ![i] = Return(None)]
    /\ UNCHANGED <<code, code_observers, key, key_observers, verifier, verifier_observers, versions, version_observers, received_observers, observer_result, closed_result, closed_observers, deferreds, boss, delegate>>

received(i, plaintext) ==
    IF received_observers[i] # << >>
    THEN LET st == callback(Heap(i), Head(received_observers[i]), plaintext) IN
         /\ received_observers' = [received_observers EXCEPT ![i] = Tail(@)]
         /\ deferreds' = [deferreds EXCEPT ![i] = st.ds]
         /\ ret' = [ret EXCEPT ![i] = Done(st)]
         /\ UNCHANGED <<code, code_observers, key, key_observers, verifier, verifier_observers, versions, version_observers, received_data, observer_result, closed_result, closed_observers, boss, delegate>>
    ELSE /\ received_data' = [received_data EXCEPT ![i] = Append(@, plaintext)]
         /\ ret' = [ret EXCEPT ![i] = Return(None)]
         /\ UNCHANGED <<code, code_observers, key, key_observers, verifier, verifier_observers, versions, version_observers, received_observers, observer_result, closed_result, closed_observers, deferreds, boss, delegate>>

\* closed() giving the readers the closed-channel error whatever the result.
closed_observer_result_generic(result) == WormholeClosed(result)

closed_observer_result(result) ==
    IF isinstance_Exception(result) THEN Failure(result) ELSE WormholeClosed(result)

\* closed() giving close() the readers' error (_closed_result = _observer_result).
closed_closed_result_as_observers(result) ==
    IF isinstance_Exception(result) THEN Failure(result) ELSE WormholeClosed(result)

closed_closed_result(result) ==
    IF isinstance_Exception(result) THEN Failure(result) ELSE result

\* closed() that forgets the receive-waiters.
closed_sparing_receivers(i, result) ==
    LET o == closed_observer_result(result)
        r == closed_closed_result(result)
        s1 == errback_all(Heap(i), code_observers[i], o)
        s2 == errback_all(s1, key_observers[i], o)
        s3 == errback_all(s2, verifier_observers[i], o)
        s4 == errback_all(s3, version_observers[i], o)
        s6 == callback_all(s4, closed_observers[i], r)
    IN
    /\ observer_result' = [observer_result EXCEPT ![i] = o]
    /\ closed_result' = [closed_result EXCEPT ![i] = r]
    /\ deferreds' = [deferreds EXCEPT ![i] = s6.ds]
    /\ ret' = [ret EXCEPT ![i] = Done(s6)]
    /\ UNCHANGED <<code, code_observers, key, key_observers, verifier, verifier_observers, versions, version_observers, received_data, received_observers, closed_observers, boss, delegate>>

closed(i, result) ==
    LET o == closed_observer_result(result)
        r == closed_closed_result(result)
        s1 == errback_all(Heap(i), code_observers[i], o)
        s2 == errback_all(s1, key_observers[i], o)
        s3 == errback_all(s2, verifier_observers[i], o)
        s4 == errback_all(s3, version_observers[i], o)
        s5 == errback_all(s4, received_observers[i], o)
        s6 == callback_all(s5, closed_observers[i], r)
    IN
    /\ observer_result' = [observer_result EXCEPT ![i] = o]
    /\ closed_result' = [closed_result EXCEPT ![i] = r]
    /\ deferreds' = [deferreds EXCEPT ![i] = s6.ds]
    /\ ret' = [ret EXCEPT ![i] = Done(s6)]
    /\ UNCHANGED <<code, code_observers, key, key_observers, verifier, verifier_observers, versions, version_observers, received_data, received_observers, closed_observers, boss, delegate>>

\* ------------------------------------------------ _DelegatedWormhole
\* from above
delegated_allocate_code(i, code_length) ==
    /\ boss' = [boss EXCEPT ![i] = Append(@, [op |-> "allocate_code", arg |-> PyInt(code_length)])]
    /\ ret' = [ret EXCEPT ![i] = Return(None)]
    /\ UNCHANGED <<fields, deferreds, delegate>>

delegated_input_code(i) ==
    /\ boss' = [boss EXCEPT ![i] = Append(@, [op |-> "input_code", arg |-> None])]
    /\ ret' = [ret EXCEPT ![i] = Return(None)]
    /\ UNCHANGED <<fields, deferreds, delegate>>

delegated_set_code(i, c) ==
    /\ boss' = [boss EXCEPT ![i] = Append(@, [op |-> "set_code", arg |-> c])]
    /\ ret' = [ret EXCEPT ![i] = Return(None)]
    /\ UNCHANGED <<fields, deferreds, delegate>>

delegated_send(i, plaintext) ==
    /\ boss' = [boss EXCEPT ![i] = Append(@, [op |-> "send", arg |-> plaintext])]
    /\ ret' = [ret EXCEPT ![i] = Return(None)]
    /\ UNCHANGED <<fields, deferreds, delegate>>

delegated_derive_key(i, purpose, length) ==
    /\ ret' = [ret EXCEPT ![i] =
                 IF ~isinstance_str(purpose) THEN Raise(TypeError)
                 ELSE IF ~Truthy(key[i]) THEN Raise(NoKeyError)
                 ELSE Return(key_derive_key(key[i], to_bytes(purpose), length))]
    /\ UNCHANGED <<fields, deferreds, boss, delegate>>

delegated_close(i) ==
    /\ boss' = [boss EXCEPT ![i] = Append(@, [op |-> "close", arg |-> None])]
    /\ ret' = [ret EXCEPT ![i] = Return(None)]
    /\ UNCHANGED <<fields, deferreds, delegate>>

\* from below
\* A call on the delegate, recorded with the key the facade holds while the
\* delegate runs (what a derive_key() made from inside the callback reads).
wormhole_call(i, method, x) == [m |-> method, arg |-> x, key |-> key[i]]

delegated_got_code(i, c) ==
    /\ delegate' = [delegate EXCEPT ![i] = Append(@, wormhole_call(i, "wormhole_code", c))]
    /\ ret' = [ret EXCEPT ![i] = Return(None)]
    /\ UNCHANGED <<fields, deferreds, boss>>

delegated_got_key(i, k) ==
    /\ delegate' = [delegate EXCEPT ![i] = Append(@, wormhole_call(i, "wormhole_key", k))]
    /\ key' = [key EXCEPT ![i] = k]
    /\ ret' = [ret EXCEPT ![i] = Return(None)]
    /\ UNCHANGED <<code, code_observers, key_observers, verifier, verifier_observers,
                   versions, version_observers, received_data, received_observers,
                   observer_result, closed_result, closed_observers, deferreds, boss>>

delegated_got_verifier(i, v) ==
    /\ delegate' = [delegate EXCEPT ![i] = Append(@, wormhole_call(i, "wormhole_verified", v))]
    /\ ret' = [ret EXCEPT ![i] = Return(None)]
    /\ UNCHANGED <<fields, deferreds, boss>>

delegated_got_version(i, v) ==
    /\ delegate' = [delegate EXCEPT ![i] = Append(@, wormhole_call(i, "wormhole_version", v))]
    /\ ret' = [ret EXCEPT ![i] = Return(None)]
    /\ UNCHANGED <<fields, deferreds, boss>>

\* received() that queues the message instead of handing it to the delegate.
delegated_received_buffered(i, plaintext) ==
    /\ received_data' = [received_data EXCEPT ![i] = Append(@, plaintext)]
    /\ ret' = [ret EXCEPT ![i] = Return(None)]
    /\ UNCHANGED <<code, code_observers, key, key_observers, verifier, verifier_observers,
                   versions, version_observers, received_observers, observer_result,
                   closed_result, closed_observers, deferreds, boss, delegate>>

delegated_received(i, plaintext) ==
    /\ delegate' = [delegate EXCEPT ![i] = Append(@, wormhole_call(i, "wormhole_received", plaintext))]
    /\ ret' = [ret EXCEPT ![i] = Return(None)]
    /\ UNCHANGED <<fields, deferreds, boss>>

delegated_closed(i, result) ==
    /\ delegate' = [delegate EXCEPT ![i] = Append(@, wormhole_call(i, "wormhole_closed", result))]
    /\ ret' = [ret EXCEPT ![i] = Return(None)]
    /\ UNCHANGED <<fields, deferreds, boss>>

\* ------------------------------------------------------------ the facade
\* One facade, as create() returns it, called by the application and fed
\* events by its Boss.
W == "A"

Call ==
    /\ calls < MaxCalls
    /\ calls' = calls + 1
    /\ UNCHANGED <<flavor, events, got, blocking, engine>>

Event(e, x) ==
    /\ events < MaxEvents
    /\ events' = events + 1
    /\ got' = [got EXCEPT ![e] = Append(@, x)]
    /\ UNCHANGED <<flavor, calls, blocking, engine>>

IsDeferred == flavor[W] = "deferred"
IsDelegated == flavor[W] = "delegated"

WhenCode == IsDeferred /\ Call /\ when_code(W)
WhenKey == IsDeferred /\ Call /\ when_key(W)
WhenVerified == IsDeferred /\ Call /\ when_verified(W)
WhenVersion == IsDeferred /\ Call /\ when_version(W)
WhenReceived == IsDeferred /\ Call /\ when_received(W)
AllocateCode == IsDeferred /\ \E n \in CodeLengths : Call /\ allocate_code(W, n)
InputCode == IsDeferred /\ Call /\ input_code(W)
SetCode == IsDeferred /\ \E c \in SetCodes : Call /\ set_code(W, c)
Send == IsDeferred /\ \E m \in Outbound : Call /\ send(W, m)
DeriveKey == IsDeferred /\ \E p \in Purposes, n \in Lengths : Call /\ derive_key(W, p, n)
Close == IsDeferred /\ Call /\ close(W)
GotCode == IsDeferred /\ \E c \in Codes : Event("got_code", c) /\ got_code(W, c)
GotKey == IsDeferred /\ \E k \in Keys : Event("got_key", k) /\ got_key(W, k)
GotVerifier == IsDeferred /\ \E v \in Verifiers : Event("got_verifier", v) /\ got_verifier(W, v)
GotVersion == IsDeferred /\ \E v \in Versions : Event("got_version", v) /\ got_version(W, v)
Received == IsDeferred /\ \E m \in Messages : Event("received", m) /\ received(W, m)
Closed == IsDeferred /\ \E r \in Results : Event("closed", r) /\ closed(W, r)

DelegatedAllocateCode == IsDelegated /\ \E n \in CodeLengths : Call /\ delegated_allocate_code(W, n)
DelegatedInputCode == IsDelegated /\ Call /\ delegated_input_code(W)
DelegatedSetCode == IsDelegated /\ \E c \in SetCodes : Call /\ delegated_set_code(W, c)
DelegatedSend == IsDelegated /\ \E m \in Outbound : Call /\ delegated_send(W, m)
DelegatedDeriveKey == IsDelegated /\ \E p \in Purposes, n \in Lengths : Call /\ delegated_derive_key(W, p, n)
DelegatedClose == IsDelegated /\ Call /\ delegated_close(W)
DelegatedGotCode == IsDelegated /\ \E c \in Codes : Event("got_code", c) /\ delegated_got_code(W, c)
DelegatedGotKey == IsDelegated /\ \E k \in Keys : Event("got_key", k) /\ delegated_got_key(W, k)
DelegatedGotVerifier == IsDelegated /\ \E v \in Verifiers : Event("got_verifier", v) /\ delegated_got_verifier(W, v)
DelegatedGotVersion == IsDelegated /\ \E v \in Versions : Event("got_version", v) /\ delegated_got_version(W, v)
DelegatedReceived == IsDelegated /\ \E m \in Messages : Event("received", m) /\ delegated_received(W, m)
DelegatedClosed == IsDelegated /\ \E r \in Results : Event("closed", r) /\ delegated_closed(W, r)

Next ==
    \/ WhenCode \/ WhenKey \/ WhenVerified \/ WhenVersion \/ WhenReceived
    \/ AllocateCode \/ InputCode \/ SetCode \/ Send \/ DeriveKey \/ Close
    \/ GotCode \/ GotKey \/ GotVerifier \/ GotVersion \/ Received \/ Closed
    \/ DelegatedAllocateCode \/ DelegatedInputCode \/ DelegatedSetCode
    \/ DelegatedSend \/ DelegatedDeriveKey \/ DelegatedClose
    \/ DelegatedGotCode \/ DelegatedGotKey \/ DelegatedGotVerifier
    \/ DelegatedGotVersion \/ DelegatedReceived \/ DelegatedClosed

Spec == Init /\ [][Next]_vars

\* ------------------------------------------------------ the blocking flavor
\* wormhole.blocking.transcribe.Wormhole, which test_blocking.py drives: a
\* facade and its Boss on a reactor thread of their own, and calls that block
\* the calling thread until the facade's Deferred fires. One call at a time
\* is in progress on an instance.
Blocked(i, op, pc) == [thread EXCEPT ![i] = [op |-> op, pc |-> pc, d |-> 0]]
Rejected(i, op) == [outcome EXCEPT ![i] = [op |-> op, how |-> "raise", val |-> UsageError]]
Returned(i, op, x) == [outcome EXCEPT ![i] = [op |-> op, how |-> "return", val |-> x]]
Using(i, op, x) == [used EXCEPT ![i] = Append(@, [op |-> op, arg |-> x])]
\* The serialization window closes once get_data has been invoked.
\* The window closing only when get_data passed the guard and sent.
Attempted_when_sent(i, op) ==
    [data_attempted EXCEPT ![i] = @ \/ (op = "get_data" /\ code_step[i])]

Attempted(i, op) == [data_attempted EXCEPT ![i] = @ \/ op = "get_data"]

\* get_code() that asks the Boss for a code before it looks at the guard.
blocking_get_code_forwarding(i, code_length) ==
    /\ thread[i] = Idle
    /\ used' = Using(i, "get_code", PyInt(code_length))
    /\ data_attempted' = Attempted(i, "get_code")
    /\ allocate_code(i, code_length)
    /\ IF code_step[i]
       THEN /\ outcome' = Rejected(i, "get_code")
            /\ UNCHANGED thread
       ELSE /\ thread' = Blocked(i, "get_code", "call")
            /\ UNCHANGED outcome
    /\ UNCHANGED code_step

blocking_get_code(i, code_length) ==
    /\ thread[i] = Idle
    /\ used' = Using(i, "get_code", PyInt(code_length))
    /\ data_attempted' = Attempted(i, "get_code")
    /\ IF code_step[i]
       THEN /\ outcome' = Rejected(i, "get_code")
            /\ UNCHANGED <<thread, facade>>
       ELSE /\ allocate_code(i, code_length)
            /\ thread' = Blocked(i, "get_code", "call")
            /\ UNCHANGED outcome
    /\ UNCHANGED code_step

\* set_code() without the guard: a second code is forwarded like the first.
blocking_set_code_unguarded(i, c) ==
    /\ thread[i] = Idle
    /\ used' = Using(i, "set_code", c)
    /\ data_attempted' = Attempted(i, "set_code")
    /\ set_code(i, c)
    /\ code_step' = [code_step EXCEPT ![i] = TRUE]
    /\ outcome' = Returned(i, "set_code", None)
    /\ UNCHANGED thread

blocking_set_code(i, c) ==
    /\ thread[i] = Idle
    /\ used' = Using(i, "set_code", c)
    /\ data_attempted' = Attempted(i, "set_code")
    /\ IF code_step[i]
       THEN /\ outcome' = Rejected(i, "set_code")
            /\ UNCHANGED <<code_step, facade>>
       ELSE /\ set_code(i, c)
            /\ code_step' = [code_step EXCEPT ![i] = TRUE]
            /\ outcome' = Returned(i, "set_code", None)
    /\ UNCHANGED thread

blocking_input_code(i) ==
    /\ thread[i] = Idle
    /\ used' = Using(i, "input_code", None)
    /\ data_attempted' = Attempted(i, "input_code")
    /\ input_code(i)
    /\ code_step' = [code_step EXCEPT ![i] = TRUE]
    /\ outcome' = Returned(i, "input_code", None)
    /\ UNCHANGED thread

blocking_get_verifier(i) ==
    /\ thread[i] = Idle
    /\ used' = Using(i, "get_verifier", None)
    /\ data_attempted' = Attempted(i, "get_verifier")
    /\ IF ~code_step[i]
       THEN /\ outcome' = Rejected(i, "get_verifier")
            /\ UNCHANGED thread
       ELSE /\ thread' = Blocked(i, "get_verifier", "call")
            /\ UNCHANGED outcome
    /\ UNCHANGED <<code_step, facade>>

\* get_data() without the guard: it sends and blocks whatever came before.
blocking_get_data_unguarded(i, outbound_data) ==
    /\ thread[i] = Idle
    /\ used' = Using(i, "get_data", outbound_data)
    /\ data_attempted' = Attempted(i, "get_data")
    /\ send(i, outbound_data)
    /\ thread' = Blocked(i, "get_data", "call")
    /\ UNCHANGED <<outcome, code_step>>

blocking_get_data(i, outbound_data) ==
    /\ thread[i] = Idle
    /\ used' = Using(i, "get_data", outbound_data)
    /\ data_attempted' = Attempted(i, "get_data")
    /\ IF ~code_step[i]
       THEN /\ outcome' = Rejected(i, "get_data")
            /\ UNCHANGED <<thread, facade>>
       ELSE /\ send(i, outbound_data)
            /\ thread' = Blocked(i, "get_data", "call")
            /\ UNCHANGED outcome
    /\ UNCHANGED code_step

blocking_close(i) ==
    /\ thread[i] = Idle
    /\ used' = Using(i, "close", None)
    /\ data_attempted' = Attempted(i, "close")
    /\ thread' = Blocked(i, "close", "call")
    /\ UNCHANGED <<outcome, code_step, facade>>

\* serialize(): the Engine's state under the facade's version tag, while a
\* code is known and no data exchange has been attempted.
blocking_serialize(i) ==
    /\ thread[i] = Idle
    /\ used' = Using(i, "serialize", None)
    /\ outcome' = IF ~code_step[i] \/ data_attempted[i]
                  THEN Rejected(i, "serialize")
                  ELSE Returned(i, "serialize", PyVal("json", "wormhole"))
    /\ UNCHANGED <<thread, code_step, data_attempted, facade>>

\* The call asks the facade for the Deferred it then blocks on.
blocking_when(i) ==
    /\ thread[i].pc = "call"
    /\ IF thread[i].op = "get_code" THEN when_code(i)
       ELSE IF thread[i].op = "get_verifier" THEN when_verified(i)
       ELSE IF thread[i].op = "get_data" THEN when_received(i)
       ELSE close(i)
    /\ thread' = [thread EXCEPT ![i] = [@ EXCEPT !.pc = "wait", !.d = Len(deferreds[i]) + 1]]
    /\ UNCHANGED <<outcome, code_step, data_attempted, used>>

\* The Deferred has fired: the call returns its value or raises its failure.
blocking_return(i) ==
    /\ thread[i].pc = "wait"
    /\ LET x == deferreds[i][thread[i].d] IN
       /\ x.state # "pending"
       /\ outcome' = [outcome EXCEPT ![i] = [op |-> thread[i].op,
                                             how |-> IF x.state = "ok" THEN "return" ELSE "raise",
                                             val |-> x.val]]
       /\ code_step' = [code_step EXCEPT ![i] =
                           @ \/ (thread[i].op = "get_code" /\ x.state = "ok")]
    /\ thread' = [thread EXCEPT ![i] = Idle]
    /\ UNCHANGED <<used, data_attempted, facade>>

\* ------------------------------------------------------------------ the Boss
\* The Boss handles the calls the facade made on it, in order, and pushes
\* its events into the facade; the relay passes what one side sent to the
\* side that holds the same code.
Peer(i) == IF i = "A" THEN "B" ELSE "A"
NextCall(i) == boss[i][boss_done[i] + 1]
Handling(i, op) == boss_done[i] < Len(boss[i]) /\ NextCall(i).op = op
Handled(i) == boss_done' = [boss_done EXCEPT ![i] = @ + 1]
Mood(i, mood) == boss_mood' = [boss_mood EXCEPT ![i] = mood]

boss_allocate_code(i) ==
    /\ Handling(i, "allocate_code") /\ boss_mood[i] = "new"
    /\ \E c \in Allocated : got_code(i, c) /\ boss_code' = [boss_code EXCEPT ![i] = c]
    /\ Handled(i) /\ Mood(i, "coded")
    /\ UNCHANGED mailbox

boss_input_code(i) ==
    /\ Handling(i, "input_code") /\ boss_mood[i] = "new"
    /\ \E c \in SetCodes : got_code(i, c) /\ boss_code' = [boss_code EXCEPT ![i] = c]
    /\ Handled(i) /\ Mood(i, "coded")
    /\ UNCHANGED mailbox

boss_set_code(i) ==
    /\ Handling(i, "set_code") /\ boss_mood[i] = "new"
    /\ got_code(i, NextCall(i).arg)
    /\ boss_code' = [boss_code EXCEPT ![i] = NextCall(i).arg]
    /\ Handled(i) /\ Mood(i, "coded")
    /\ UNCHANGED mailbox

boss_send(i) ==
    /\ Handling(i, "send") /\ boss_mood[i] # "closed"
    /\ mailbox' = [mailbox EXCEPT ![i] = Append(@, NextCall(i).arg)]
    /\ Handled(i)
    /\ UNCHANGED <<facade, boss_code, boss_mood>>

\* close(): the result is "happy" once the connection was established, an
\* error otherwise.
boss_close(i) ==
    /\ Handling(i, "close") /\ boss_mood[i] # "closed"
    /\ closed(i, IF boss_mood[i] = "happy" THEN Str("happy") ELSE Exc("LonelyError"))
    /\ Handled(i) /\ Mood(i, "closed")
    /\ UNCHANGED <<boss_code, mailbox>>

\* A call the Boss has no use for: a second code, anything after the close.
boss_ignore(i) ==
    /\ boss_done[i] < Len(boss[i])
    /\ \/ boss_mood[i] = "closed"
       \/ boss_mood[i] # "new" /\ NextCall(i).op \in {"allocate_code", "input_code", "set_code"}
    /\ Handled(i)
    /\ UNCHANGED <<facade, boss_code, boss_mood, mailbox>>

\* The session fails on its own (wrong password, the server's error, a lost
\* connection): the Boss closes it with the error.
boss_error(i) ==
    /\ boss_mood[i] # "closed"
    /\ closed(i, Exc("err"))
    /\ Mood(i, "closed")
    /\ UNCHANGED <<boss_done, boss_code, mailbox>>

\* The two sides hold the same code: the key exchange runs, then messages flow.
Paired(i) == boss_code[i] # None /\ boss_code[Peer(i)] = boss_code[i]

boss_got_key(i) ==
    /\ boss_mood[i] = "coded" /\ Paired(i)
    /\ got_key(i, Str("k"))
    /\ Mood(i, "keyed")
    /\ UNCHANGED <<boss_done, boss_code, mailbox>>

boss_got_verifier(i) ==
    /\ boss_mood[i] = "keyed"
    /\ got_verifier(i, Str("verifier"))
    /\ Mood(i, "verified")
    /\ UNCHANGED <<boss_done, boss_code, mailbox>>

boss_got_version(i) ==
    /\ boss_mood[i] = "verified"
    /\ got_version(i, Dict(""))
    /\ Mood(i, "happy")
    /\ UNCHANGED <<boss_done, boss_code, mailbox>>

boss_received(i) ==
    /\ boss_mood[i] = "happy" /\ Paired(i)
    /\ mailbox[Peer(i)] # << >>
    /\ received(i, Head(mailbox[Peer(i)]))
    /\ mailbox' = [mailbox EXCEPT ![Peer(i)] = Tail(@)]
    /\ UNCHANGED <<boss_done, boss_code, boss_mood>>

\* ------------------------------------------- two sides exchanging a message
\* test_basic and test_fixed_code: A gets a code (or sets one), B sets the
\* same code, then each side calls get_data with its own data, from threads
\* of their own.
Data(i) == IF i = "A" THEN Str("data1") ELSE Str("data2")
CodeOfA == IF used["A"][1].op = "get_code" THEN outcome["A"].val ELSE used["A"][1].arg

InitExchange == Init /\ flavor = [i \in Insts |-> "deferred"]

ThreadStep == UNCHANGED <<counters, engine>>
BossStep == UNCHANGED <<counters, blocking>>

NextExchange ==
    \/ used["A"] = << >> /\ \E n \in CodeLengths : blocking_get_code("A", n) /\ ThreadStep
    \/ used["A"] = << >> /\ \E c \in SetCodes : blocking_set_code("A", c) /\ ThreadStep
    \/ /\ used["B"] = << >> /\ used["A"] # << >> /\ code_step["A"] /\ thread["A"] = Idle
       /\ blocking_set_code("B", CodeOfA) /\ ThreadStep
    \/ \E i \in Insts : /\ Len(used[i]) = 1 /\ code_step["A"] /\ code_step["B"]
                        /\ blocking_get_data(i, Data(i)) /\ ThreadStep
    \/ \E i \in Insts : blocking_when(i) /\ ThreadStep
    \/ \E i \in Insts : blocking_return(i) /\ ThreadStep
    \/ \E i \in Insts : boss_allocate_code(i) /\ BossStep
    \/ \E i \in Insts : boss_set_code(i) /\ BossStep
    \/ \E i \in Insts : boss_send(i) /\ BossStep
    \/ \E i \in Insts : boss_got_key(i) /\ BossStep
    \/ \E i \in Insts : boss_got_verifier(i) /\ BossStep
    \/ \E i \in Insts : boss_got_version(i) /\ BossStep
    \/ \E i \in Insts : boss_received(i) /\ BossStep

SpecExchange == InitExchange /\ [][NextExchange]_vars /\ WF_vars(NextExchange)

\* ------------------------------------------------ one side, calls in any order
\* The blocking calls made on W in any order, one after the other, against a
\* peer that may enter the same code and send messages.
InitBlocking == Init /\ flavor = [i \in Insts |-> "deferred"]

MayCall == Len(used[W]) < MaxBlockingCalls /\ ThreadStep

peer_set_code ==
    /\ boss_code[W] # None /\ boss_code[Peer(W)] = None
    /\ boss_code' = [boss_code EXCEPT ![Peer(W)] = boss_code[W]]
    /\ UNCHANGED <<facade, boss_done, boss_mood, mailbox>>

\* What the peer has sent so far: still with the relay, queued in the
\* facade, or handed to a reader.
Inbound ==
    Len(mailbox[Peer(W)]) + Len(received_data[W])
    + Cardinality({n \in 1..Len(deferreds[W]) :
                      deferreds[W][n].kind = "received" /\ deferreds[W][n].state = "ok"})

peer_send(plaintext) ==
    /\ boss_code[Peer(W)] # None /\ Inbound < MaxInbound
    /\ mailbox' = [mailbox EXCEPT ![Peer(W)] = Append(@, plaintext)]
    /\ UNCHANGED <<facade, boss_done, boss_code, boss_mood>>

NextBlocking ==
    \/ MayCall /\ \E n \in CodeLengths : blocking_get_code(W, n)
    \/ MayCall /\ \E c \in SetCodes : blocking_set_code(W, c)
    \/ MayCall /\ blocking_input_code(W)
    \/ MayCall /\ blocking_get_verifier(W)
    \/ MayCall /\ \E m \in Outbound : blocking_get_data(W, m)
    \/ MayCall /\ blocking_close(W)
    \/ MayCall /\ blocking_serialize(W)
    \/ blocking_when(W) /\ ThreadStep
    \/ blocking_return(W) /\ ThreadStep
    \/ boss_allocate_code(W) /\ BossStep
    \/ boss_input_code(W) /\ BossStep
    \/ boss_set_code(W) /\ BossStep
    \/ boss_send(W) /\ BossStep
    \/ boss_close(W) /\ BossStep
    \/ boss_ignore(W) /\ BossStep
    \/ boss_error(W) /\ BossStep
    \/ boss_got_key(W) /\ BossStep
    \/ boss_got_verifier(W) /\ BossStep
    \/ boss_got_version(W) /\ BossStep
    \/ boss_received(W) /\ BossStep
    \/ peer_set_code /\ BossStep
    \/ \E m \in Messages : peer_send(m) /\ BossStep

SpecBlocking == InitBlocking /\ [][NextBlocking]_vars

\* A thread whose Deferred has fired gets to run: the steps of a blocked call
\* are weakly fair. Nothing is assumed of the Boss or the peer.
SpecBlockingFair ==
    /\ SpecBlocking
    /\ WF_vars(blocking_when(W) /\ ThreadStep)
    /\ WF_vars(blocking_return(W) /\ ThreadStep)

\* ------------------------------------------- the facade, with its calls logged
\* The same facade under the same calls and events, with every call the
\* application makes written to `used`, so that what a call did can be told
\* from which call it was.
Asked(op, x) ==
    /\ calls < MaxCalls
    /\ calls' = calls + 1
    /\ used' = Using(W, op, x)
    /\ UNCHANGED <<flavor, events, got, thread, outcome, code_step, data_attempted, engine>>

NextCalls ==
    \/ IsDeferred /\ Asked("when_code", None) /\ when_code(W)
    \/ IsDeferred /\ Asked("when_key", None) /\ when_key(W)
    \/ IsDeferred /\ Asked("when_verified", None) /\ when_verified(W)
    \/ IsDeferred /\ Asked("when_version", None) /\ when_version(W)
    \/ IsDeferred /\ Asked("when_received", None) /\ when_received(W)
    \/ IsDeferred /\ \E n \in CodeLengths : Asked("allocate_code", PyInt(n)) /\ allocate_code(W, n)
    \/ IsDeferred /\ Asked("input_code", None) /\ input_code(W)
    \/ IsDeferred /\ \E c \in SetCodes : Asked("set_code", c) /\ set_code(W, c)
    \/ IsDeferred /\ \E m \in Outbound : Asked("send", m) /\ send(W, m)
    \/ IsDeferred /\ \E p \in Purposes, n \in Lengths : Asked("derive_key", p) /\ derive_key(W, p, n)
    \/ IsDeferred /\ Asked("close", None) /\ close(W)
    \/ IsDelegated /\ \E n \in CodeLengths : Asked("allocate_code", PyInt(n)) /\ delegated_allocate_code(W, n)
    \/ IsDelegated /\ Asked("input_code", None) /\ delegated_input_code(W)
    \/ IsDelegated /\ \E c \in SetCodes : Asked("set_code", c) /\ delegated_set_code(W, c)
    \/ IsDelegated /\ \E m \in Outbound : Asked("send", m) /\ delegated_send(W, m)
    \/ IsDelegated /\ \E p \in Purposes, n \in Lengths : Asked("derive_key", p) /\ delegated_derive_key(W, p, n)
    \/ IsDelegated /\ Asked("close", None) /\ delegated_close(W)
    \/ GotCode \/ GotKey \/ GotVerifier \/ GotVersion \/ Received \/ Closed
    \/ DelegatedGotCode \/ DelegatedGotKey \/ DelegatedGotVerifier
    \/ DelegatedGotVersion \/ DelegatedReceived \/ DelegatedClosed

SpecCalls == Init /\ [][NextCalls]_vars

\* =================================================================== claims
\* The facade's Deferreds, and the steps of Spec as the history shows them.
D == deferreds[W]
Pending(ds) == {n \in 1..Len(ds) : ds[n].state = "pending"}
OfKind(ds, kind) == {n \in 1..Len(ds) : ds[n].kind = kind}
Newest(ds) == ds[Len(ds)]
Latest(e) == got[e][Len(got[e])]

\* The step is the event e / the step is a call that made a Deferred of kind.
IsEvent(e) == Len(got'[e]) = Len(got[e]) + 1
EventArg(e) == got'[e][Len(got'[e])]
Made(kind) == Len(deferreds'[W]) = Len(D) + 1 /\ Newest(deferreds'[W]).kind = kind

ScalarChannels == {[e |-> "got_code", kind |-> "code"], [e |-> "got_key", kind |-> "key"],
                   [e |-> "got_verifier", kind |-> "verifier"],
                   [e |-> "got_version", kind |-> "version"]}
ReaderKinds == {"code", "key", "verifier", "version", "received"}

\* The error a reader gets once closed(r) was ingested.
ReadError(r) == IF r.t = "Exception" THEN PyVal("Failure", r.v) ELSE PyVal("WormholeClosed", r.v)
\* The outcome close() reports once closed(r) was ingested.
CloseOutcome(r) == IF r.t = "Exception" THEN PyVal("Failure", r.v) ELSE r

\* C1: scalar delivery. While no closed event has been ingested, got_X(v)
\* resolves every waiter registered before it with v, in the order the waiters
\* were registered, and a when_X() made after got_X(v) returns a future that
\* is already resolved with v.
C1_Delivery(e, kind) ==
    (IsEvent(e) /\ got'["closed"] = << >>) =>
        LET waiting == OfKind(D, kind) \cap Pending(D) IN
        /\ \A n \in waiting : deferreds'[W][n].state = "ok" /\ deferreds'[W][n].val = EventArg(e)
        /\ \A n, m \in waiting : n < m => deferreds'[W][n].at < deferreds'[W][m].at
C1_Late(e, kind) ==
    (Made(kind) /\ got["closed"] = << >> /\ got[e] # << >>) =>
        /\ Newest(deferreds'[W]).made = "succeed"
        /\ Newest(deferreds'[W]).state = "ok"
        /\ Newest(deferreds'[W]).val = Latest(e)
C1_Waiting(e, kind) ==
    (Made(kind) /\ got["closed"] = << >> /\ got[e] = << >>) =>
        Newest(deferreds'[W]).state = "pending"
C1_ScalarDelivery ==
    [][\A c \in ScalarChannels :
          C1_Delivery(c.e, c.kind) /\ C1_Late(c.e, c.kind) /\ C1_Waiting(c.e, c.kind)]_vars

\* C1 witness: a when_code() made before got_code(v) and one made after it,
\* both resolved with v.
C1_Witness ==
    /\ got["closed"] = << >>
    /\ Len(got["got_code"]) = 1
    /\ \E n, m \in OfKind(D, "code") :
          /\ n < m
          /\ D[n].made = "Deferred" /\ D[n].state = "ok" /\ D[n].val = got["got_code"][1]
          /\ D[m].made = "succeed" /\ D[m].state = "ok" /\ D[m].val = got["got_code"][1]

\* C2: message FIFO. While no closed event has been ingested, the k-th
\* when_received() call holds the k-th message ingested (or is pending when
\* fewer than k have arrived), and the messages no call has claimed are
\* buffered in arrival order.
Rank(n) == Cardinality({m \in OfKind(D, "received") : m <= n})
C2_MessageFifo ==
    (IsDeferred /\ got["closed"] = << >>) =>
        LET R == got["received"]
            K == OfKind(D, "received")
        IN
        /\ \A n \in K : IF Rank(n) <= Len(R)
                        THEN D[n].state = "ok" /\ D[n].val = R[Rank(n)]
                        ELSE D[n].state = "pending"
        /\ received_data[W] = IF Cardinality(K) >= Len(R) THEN << >>
                              ELSE SubSeq(R, Cardinality(K) + 1, Len(R))

\* C2 witness: two different messages and two when_received() calls, the
\* first made after its message arrived, the second before.
C2_Witness ==
    /\ got["closed"] = << >>
    /\ Len(got["received"]) = 2
    /\ got["received"][1] # got["received"][2]
    /\ \E n, m \in OfKind(D, "received") :
          /\ n < m
          /\ D[n].made = "succeed" /\ D[n].val = got["received"][1]
          /\ D[m].made = "Deferred" /\ D[m].state = "ok" /\ D[m].val = got["received"][2]

\* C3: clean close asymmetry. When the Boss delivers closed(success_value),
\* every pending close() future resolves successfully with success_value
\* itself, and every pending when_code/when_key/when_verified/when_version/
\* when_received future fails with WormholeClosed, never with success_value.
IsClose(r) == got["closed"] = << >> /\ got'["closed"] = <<r>>
C3_CleanClose ==
    [][\A r \in Results : (IsClose(r) /\ r.t # "Exception") =>
          \A n \in Pending(D) :
              IF D[n].kind = "close"
              THEN deferreds'[W][n].state = "ok" /\ deferreds'[W][n].val = r
              ELSE /\ deferreds'[W][n].state = "fail"
                   /\ deferreds'[W][n].val = PyVal("WormholeClosed", r.v)
                   /\ deferreds'[W][n].val # r]_vars

\* C3 witness: a close() future and a when_received() future, both pending
\* when closed("happy") arrived.
C3_Witness ==
    /\ got["closed"] = <<Str("happy")>>
    /\ \E n \in OfKind(D, "close") : D[n].made = "Deferred" /\ D[n].state = "ok"
    /\ \E n \in OfKind(D, "received") : D[n].made = "Deferred" /\ D[n].state = "fail"

\* C4: failed close. When the Boss delivers closed(failure_f), every pending
\* close() future, every pending scalar waiter and every pending
\* when_received() waiter fails with that failure_f.
C4_FailedClose ==
    [][\A r \in Results : (IsClose(r) /\ r.t = "Exception") =>
          \A n \in Pending(D) :
              /\ deferreds'[W][n].state = "fail"
              /\ deferreds'[W][n].val = PyVal("Failure", r.v)]_vars

\* C4 witness: a close() future and a when_key() future, both pending when
\* closed(err) arrived.
C4_Witness ==
    /\ got["closed"] = <<Exc("err")>>
    /\ \E n \in OfKind(D, "close") : D[n].made = "Deferred" /\ D[n].state = "fail"
    /\ \E n \in OfKind(D, "key") : D[n].made = "Deferred" /\ D[n].state = "fail"

\* C5: close is terminal for readers. Once a closed(result) event has been
\* ingested, every new when_code(), when_key(), when_verified(),
\* when_version() or when_received() returns an already-failed future (the
\* closed-channel error after a clean close, the failure after a failed one),
\* also when the value was cached or messages are still buffered; it never
\* returns a value and never stays pending.
C5_ClosedReaders ==
    [][\A kind \in ReaderKinds : (Made(kind) /\ got["closed"] # << >>) =>
          /\ Newest(deferreds'[W]).made = "fail"
          /\ Newest(deferreds'[W]).state = "fail"
          /\ Newest(deferreds'[W]).val = ReadError(Latest("closed"))
          /\ received_data' = received_data]_vars

\* C5 witness: a when_key() made after the key was cached and the session
\* closed.
C5_Witness ==
    /\ got["got_key"] # << >>
    /\ key[W] # None
    /\ got["closed"] # << >>
    /\ \E n \in OfKind(D, "key") : D[n].made = "fail"

\* C6: close() is idempotent once closed. For every outcome the Boss can
\* report (any success value or any failure), once closed(result) has been
\* ingested every close() returns an already-resolved future carrying that
\* outcome, does not call the Boss's close() again, and never returns a
\* future that stays pending.
C6_CloseIdempotent ==
    [][(Made("close") /\ got["closed"] # << >>) =>
          /\ Newest(deferreds'[W]).state # "pending"
          /\ Newest(deferreds'[W]).val = CloseOutcome(Latest("closed"))
          /\ boss' = boss]_vars

\* C7: derive_key(purpose, length) with a text purpose raises NoKeyError in
\* every state in which got_key has not been ingested, and does not raise
\* NoKeyError in any state after got_key(key) has been ingested. (ret holds a
\* NoKeyError or derived bytes only right after a derive_key() call.)
C7_NoKeyError ==
    /\ ret[W] = Raise(NoKeyError) => got["got_key"] = << >>
    /\ (ret[W].how = "return" /\ ret[W].val.t = "bytes") => got["got_key"] # << >>

\* C8: the cached key survives close. Once got_key(key) was ingested no call
\* and no event other than a further got_key changes the cached key, and a
\* derive_key() made after the session has closed derives from that same key
\* and succeeds.
C8_KeySurvivesClose ==
    got["got_key"] # << >> =>
        /\ key[W] = Latest("got_key")
        /\ (got["closed"] # << >> /\ ret[W].val.t \in {"bytes", "NoKeyError"}) =>
               /\ ret[W].how = "return"
               /\ ret[W].val.v = Latest("got_key").v

\* What get_data handed back on side i, once that call is over.
GotData(i) == outcome[i].op = "get_data"
Exchanged(i) == GotData(i) /\ outcome[i].how = "return" /\ outcome[i].val = Data(Peer(i))

\* C9: two sides that share a code and each call get_data with their own
\* data, concurrently: both calls come back, neither raises, and each side
\* holds what the other side passed in (A has data2, B has data1).
C9_Exchange ==
    /\ [](\A i \in Insts : GotData(i) => Exchanged(i))
    /\ <>(\A i \in Insts : Exchanged(i))

\* Both get_data calls have returned, each with the other side's data.
C9_Witness == \A i \in Insts : Exchanged(i) /\ thread[i] = Idle /\ mailbox[i] = << >>

\* The step is a blocking call of op on side i.
BlockingCall(i, op) ==
    /\ Len(used'[i]) = Len(used[i]) + 1
    /\ used'[i][Len(used'[i])].op = op

\* C10: while no code-establishing call (get_code, set_code, input_code) has
\* completed on an instance, every get_verifier() and every get_data(...)
\* raises the usage violation at once: the call neither blocks nor returns
\* a value.
C10_PreCodeGuard ==
    [][\A i \in Insts : \A op \in {"get_verifier", "get_data"} :
          BlockingCall(i, op) /\ ~code_step[i]
              => /\ outcome'[i] = [op |-> op, how |-> "raise", val |-> UsageError]
                 /\ thread'[i] = Idle]_vars

\* get_data() was rejected on an instance whose only code-establishing call,
\* a get_code() after the close, failed and so never completed.
C10_Witness ==
    /\ ~code_step[W] /\ thread[W] = Idle
    /\ outcome[W] = [op |-> "get_data", how |-> "raise", val |-> UsageError]
    /\ \E n \in 1..Len(used[W]) : used[W][n].op = "get_code"

\* C11: the code of a blocking instance is single-assignment. Once a code
\* step has completed (set_code, or a get_code that returned), every later
\* set_code(...) and get_code(...) raises the usage violation at once, and
\* the code in force, in the facade and in the Boss, is never replaced.
C11_SingleAssignment ==
    [][\A i \in Insts :
          /\ \A op \in {"set_code", "get_code"} :
                BlockingCall(i, op) /\ code_step[i]
                    => /\ outcome'[i] = [op |-> op, how |-> "raise", val |-> UsageError]
                       /\ thread'[i] = Idle
          /\ code[i] # None => code'[i] = code[i]
          /\ boss_code[i] # None => boss_code'[i] = boss_code[i]]_vars

\* get then set: get_code() returned the allocated code, the set_code() after
\* it was rejected, and the allocated code is still the one in force.
C11_Witness ==
    /\ Len(used[W]) >= 2
    /\ used[W][1].op = "get_code" /\ used[W][2].op = "set_code"
    /\ outcome[W] = [op |-> "set_code", how |-> "raise", val |-> UsageError]
    /\ code[W] \in Allocated /\ boss_code[W] = code[W]

\* get_data has been invoked on side i, whatever came of it.
InvokedGetData(i) == \E n \in 1..Len(used[i]) : used[i][n].op = "get_data"

Closing(i) == observer_result[i] = None /\ observer_result'[i] # None

DelegateMethod(e) ==
    CASE e = "got_code" -> "wormhole_code"
      [] e = "got_key" -> "wormhole_key"
      [] e = "got_verifier" -> "wormhole_verified"
      [] e = "got_version" -> "wormhole_version"
      [] e = "received" -> "wormhole_received"
      [] e = "closed" -> "wormhole_closed"

\* C14: the delegated facade forwards without buffering. Every Boss event
\* makes, within its own step, exactly one call on the delegate, of the
\* matching method and with the event's argument, after all earlier calls;
\* no other step calls the delegate, and the facade queues nothing.
C14_DelegateForwarding ==
    [][flavor[W] = "delegated" =>
          /\ \A e \in BossEvents : IsEvent(e) =>
                /\ Len(delegate'[W]) = Len(delegate[W]) + 1
                /\ SubSeq(delegate'[W], 1, Len(delegate[W])) = delegate[W]
                /\ delegate'[W][Len(delegate'[W])].m = DelegateMethod(e)
                /\ delegate'[W][Len(delegate'[W])].arg = EventArg(e)
          /\ (\A e \in BossEvents : ~IsEvent(e)) => delegate'[W] = delegate[W]
          /\ Len(delegate'[W]) = events'
          /\ received_data'[W] = << >>]_vars

\* Two events, a message and then the close, reached the delegate in that
\* order.
C14_Witness ==
    /\ flavor[W] = "delegated"
    /\ Len(delegate[W]) = 2
    /\ delegate[W][1].m = "wormhole_received" /\ delegate[W][1].arg = Str("data2")
    /\ delegate[W][2].m = "wormhole_closed" /\ delegate[W][2].arg = Exc("err")

\* The step is the application calling op on the facade (SpecCalls).
Asks(op) == Len(used'[W]) = Len(used[W]) + 1 /\ used'[W][Len(used'[W])].op = op
Forwarded == {"allocate_code", "input_code", "set_code", "send"}
IsForwarded(c) == c.op \in Forwarded

\* C15: forwarding is pure pass-through. Each call of allocate_code(length),
\* input_code(), set_code(code) or send(bytes), on either facade, makes
\* exactly one call of the same name with the same argument on the Boss,
\* after the calls made before it, and leaves the facade's own state (cached
\* scalars, message buffer, waiter lists, Deferreds, close outcome) and the
\* delegate alone.
C15_PassThrough ==
    [][/\ \A op \in Forwarded : Asks(op) =>
             /\ boss'[W] = Append(boss[W], used'[W][Len(used'[W])])
             /\ fields' = fields
             /\ deferreds' = deferreds
             /\ delegate' = delegate
       /\ SelectSeq(boss'[W], IsForwarded) = SelectSeq(used'[W], IsForwarded)]_vars

\* send() was called while a receive-waiter was pending: the Boss got that
\* one send and the waiter is still there.
C15_Witness ==
    /\ used[W] = <<[op |-> "when_received", arg |-> None], [op |-> "send", arg |-> Str("data1")]>>
    /\ boss[W] = <<[op |-> "send", arg |-> Str("data1")]>>
    /\ received_observers[W] # << >>

\* The step is a blocking call of op on side i that the usage guard rejects.
RejectedCall(i, op) ==
    /\ BlockingCall(i, op)
    /\ outcome'[i] = [op |-> op, how |-> "raise", val |-> UsageError]
BlockingOps == {"get_code", "set_code", "input_code", "get_verifier", "get_data",
                "close", "serialize"}

C17_FiredOnce ==
    /\ \A n \in 1..Len(D) : D[n].again = 0
    /\ ret[W] # Raise(AlreadyCalledError)

\* C18: the buffer of unread messages and the list of receive-waiters are
\* never both non-empty: received() buffers only when no waiter is listed,
\* and when_received() lists a waiter only when the buffer is empty.
C18_BufferOrWaiters ==
    ~(received_data[W] # << >> /\ received_observers[W] # << >>)

\* A waiter was pending when the first message came and took it; the second
\* message found no waiter and is buffered.
C18_Witness ==
    /\ received_data[W] # << >> /\ received_observers[W] = << >>
    /\ \E n \in OfKind(D, "received") : D[n].made = "Deferred" /\ D[n].state = "ok"

\* C19: the key is cached before any consumer hears of it. In the step that
\* ingests got_key(key), the when_key() waiters are fired with key while the
\* facade holds key (deferred flavor), and the delegate's wormhole_key(key)
\* runs while the facade already holds key (delegated flavor), so that a
\* derive_key() made from inside the notification finds the key.
C19_KeyCachedFirst ==
    [][IsEvent("got_key") =>
          /\ key'[W] = EventArg("got_key")
          /\ IsDeferred =>
                \A n \in Pending(D) : D[n].kind = "key" =>
                    deferreds'[W][n].val = key'[W]
          /\ IsDelegated =>
                /\ delegate'[W] # << >>
                /\ delegate'[W][Len(delegate'[W])].m = "wormhole_key"
                /\ delegate'[W][Len(delegate'[W])].key = EventArg("got_key")]_vars

\* The step leaves every Deferred that is not of this kind as it was.
OtherDeferredsKept(kind) ==
    /\ Len(deferreds'[W]) = Len(D)
    /\ \A n \in 1..Len(D) : D[n].kind # kind => deferreds'[W][n] = D[n]
CloseKept == UNCHANGED <<observer_result, closed_result, closed_observers>>
MessagesKept == UNCHANGED <<received_data, received_observers>>

\* C20: an event touches only its own channel. On the deferred facade
\* got_X(v) changes only X's cached value, X's waiter list and X's waiters,
\* and received(m) changes only the message buffer, the receive-waiter list
\* and the receive-waiters; the other scalars' caches and waiters, the
\* close outcome, the Boss and the delegate are left alone.
C20_OwnChannelOnly ==
    [][IsDeferred =>
          /\ IsEvent("got_code") =>
                /\ UNCHANGED <<key, key_observers, verifier, verifier_observers,
                               versions, version_observers, boss, delegate>>
                /\ MessagesKept /\ CloseKept /\ OtherDeferredsKept("code")
          /\ IsEvent("got_key") =>
                /\ UNCHANGED <<code, code_observers, verifier, verifier_observers,
                               versions, version_observers, boss, delegate>>
                /\ MessagesKept /\ CloseKept /\ OtherDeferredsKept("key")
          /\ IsEvent("got_verifier") =>
                /\ UNCHANGED <<code, code_observers, key, key_observers,
                               versions, version_observers, boss, delegate>>
                /\ MessagesKept /\ CloseKept /\ OtherDeferredsKept("verifier")
          /\ IsEvent("got_version") =>
                /\ UNCHANGED <<code, code_observers, key, key_observers,
                               verifier, verifier_observers, boss, delegate>>
                /\ MessagesKept /\ CloseKept /\ OtherDeferredsKept("version")
          /\ IsEvent("received") =>
                /\ UNCHANGED <<code, code_observers, key, key_observers,
                               verifier, verifier_observers, versions, version_observers,
                               boss, delegate>>
                /\ CloseKept /\ OtherDeferredsKept("received")]_vars

\* got_code arrived while a message was buffered and a when_key() waiter was
\* pending: the code is cached, the message and the waiter are still there.
C20_Witness ==
    /\ IsDeferred
    /\ got["got_code"] # << >> /\ code[W] = Latest("got_code")
    /\ received_data[W] # << >>
    /\ key_observers[W] # << >> /\ Pending(D) # {}
====
